---- MODULE Spec2Model ----
(***************************************************************************)
(* Model of deploy_application_for_querying_regulatory_docs.py: one run of *)
(* main(), which loads config.json, validates it, issues four chained      *)
(* remote calls against the Q Business client and writes the returned      *)
(* identifiers to deployment_output.json.                                  *)
(*                                                                         *)
(* Strings are sequences of tokens: `x in s` is "some token of s is x",    *)
(* s.startswith(p) is "the first token of s is p", s == x is <<x>> = s.    *)
(* Identifiers returned by the remote service are numbers 1..MaxId; 0 is   *)
(* "no identifier".                                                        *)
(***************************************************************************)
EXTENDS Integers, Sequences, FiniteSets, TLC

\* ----------------------------------------------------------------- bounds
\* identifiers the remote service may return are 1..MaxId
MaxId == 2
\* at most this many keys are absent from a configuration that has all
\* four sections
MaxMissing == 1

Ids == 1..MaxId

\* ------------------------------------------------------ configuration file
\* load_config, line 147
required_sections == <<"aws", "application", "index", "dataSource">>

RequiredSet == {required_sections[i] : i \in DOMAIN required_sections}

\* the keys the program reads, as paths from the document root
RegionPath == <<"aws", "region">>
RoleArnPath == <<"dataSource", "roleArn">>
AdditionalPropertiesPath == <<"dataSource", "configuration", "additionalProperties">>
BucketNamePath == <<"dataSource", "configuration", "additionalProperties", "bucketName">>
IamArnPath == <<"application", "iamIdentityProviderArn">>

\* create_application, lines 63-72: keys of config['application'], in the
\* order the params dict reads them
ApplicationKeys ==
    <<"displayName", "description", "identityType", "iamIdentityProviderArn",
      "qAppsConfiguration", "personalizationConfiguration",
      "attachmentsConfiguration">>

\* create_index, lines 86-93
IndexKeys ==
    <<"displayName", "description", "type", "capacityConfiguration",
      "documentAttributeConfigurations">>

\* create_data_source, lines 107-115
DataSourceKeys ==
    <<"displayName", "description", "configuration", "syncSchedule", "roleArn">>

PathsOf(section, keys) == {<<section, keys[i]>> : i \in DOMAIN keys}

Paths ==
    {RegionPath, AdditionalPropertiesPath, BucketNamePath}
        \cup PathsOf("application", ApplicationKeys)
        \cup PathsOf("index", IndexKeys)
        \cup PathsOf("dataSource", DataSourceKeys)

\* the placeholder markers and the prefix of validate_config, lines 165-176
AccountPlaceholder == "<YOUR-ACCOUNT>"
BucketPlaceholder == "<YOUR-S3-BUCKET-NAME>"
IamPlaceholder == "<YOUR-IAM-IDENTITY-CENTER-ARN>"
SsoInstancePrefix == "arn:aws:sso:::instance/"

\* values a configuration may give the three inspected strings
RoleArnValues ==
    { <<"arn:aws:iam::", "123456789012", ":role/QBusinessRole">>,
      <<"arn:aws:iam::", AccountPlaceholder, ":role/QBusinessRole">>,
      <<AccountPlaceholder>> }

BucketNameValues ==
    { <<"regulatory-docs">>,
      <<BucketPlaceholder>>,
      <<"s3://", BucketPlaceholder>> }

IamArnValues ==
    { <<SsoInstancePrefix, "ssoins-0123456789abcdef">>,
      <<IamPlaceholder>>,
      <<SsoInstancePrefix, IamPlaceholder>>,
      <<"arn:aws:iam::", "123456789012", ":saml-provider/idp">> }

DefaultRoleArn == <<"arn:aws:iam::", "123456789012", ":role/QBusinessRole">>
DefaultBucketName == <<"regulatory-docs">>
DefaultIamArn == <<SsoInstancePrefix, "ssoins-0123456789abcdef">>

\* A configuration file: whether the path exists, whether its content is
\* JSON, and for a JSON object the top-level sections it has, the keys that
\* are absent below them and the values of the three inspected strings.
ConfigFile(exists, json, sections, missing, roleArn, bucketName, iamArn) ==
    [ exists |-> exists, json |-> json, sections |-> sections,
      missing |-> missing, roleArn |-> roleArn, bucketName |-> bucketName,
      iamArn |-> iamArn ]

\* the sets of at most n absent keys
RECURSIVE AbsentKeySets(_)
AbsentKeySets(n) ==
    IF n = 0 THEN {{}}
    ELSE AbsentKeySets(n - 1) \cup {X \cup {p} : X \in AbsentKeySets(n - 1), p \in Paths}

ConfigFiles ==
    { ConfigFile(FALSE, FALSE, {}, {}, DefaultRoleArn, DefaultBucketName, DefaultIamArn),
      ConfigFile(TRUE, FALSE, {}, {}, DefaultRoleArn, DefaultBucketName, DefaultIamArn) }
    \cup
    { ConfigFile(TRUE, TRUE, S, {}, DefaultRoleArn, DefaultBucketName, DefaultIamArn) :
        S \in (SUBSET RequiredSet) \ {RequiredSet} }
    \cup
    { ConfigFile(TRUE, TRUE, RequiredSet, M, r, b, i) :
        M \in AbsentKeySets(MaxMissing),
        r \in RoleArnValues, b \in BucketNameValues, i \in IamArnValues }

\* ------------------------------------------------------------- exceptions
Exc(type, msg) == [type |-> type, msg |-> msg]

NoExc == Exc("none", <<>>)

\* str(KeyError(k)) is repr(k)
KeyError(key) == Exc("KeyError", <<"'", key, "'">>)

\* what the handlers of load_config, lines 155-158, make of an exception
\* raised in its try block
LoadConfigExcept(e) ==
    IF e.type = "JSONDecodeError"
    THEN Exc("ValueError", <<"Invalid JSON in configuration file: ">> \o e.msg)
    ELSE Exc("Exception", <<"Error loading configuration: ">> \o e.msg)

\* ------------------------------------------------------------ load_config
\* lines 148-150: the loop over required_sections from position i on
RECURSIVE CheckSectionsFrom(_, _)
CheckSectionsFrom(file, i) ==
    IF i > Len(required_sections) THEN NoExc
    ELSE IF required_sections[i] \notin file.sections
         THEN Exc("ValueError",
                  <<"Missing required configuration section: ", required_sections[i]>>)
         ELSE CheckSectionsFrom(file, i + 1)

\* a loop that reports the last absent section instead of the first
RECURSIVE CheckSectionsBackFrom(_, _)
CheckSectionsBackFrom(file, i) ==
    IF i < 1 THEN NoExc
    ELSE IF required_sections[i] \notin file.sections
         THEN Exc("ValueError",
                  <<"Missing required configuration section: ", required_sections[i]>>)
         ELSE CheckSectionsBackFrom(file, i - 1)

CheckSectionsLastAbsent(file) == CheckSectionsBackFrom(file, Len(required_sections))

CheckSections(file) == CheckSectionsFrom(file, 1)

\* lines 139-153: the exception raised inside the try block, NoExc if none
LoadConfigTry(file) ==
    IF ~file.exists
    THEN Exc("FileNotFoundError", <<"Configuration file '", "config.json", "' not found">>)
    ELSE IF ~file.json
         THEN Exc("JSONDecodeError", <<"Expecting value">>)
         ELSE CheckSections(file)

\* lines 137-158: the exception load_config leaves with (NoExc: it returns
\* the document) and the lines it prints
load_config(file) ==
    LET e == LoadConfigTry(file) IN
    IF e = NoExc
    THEN [ raised |-> NoExc,
           printed |-> << <<"Configuration loaded successfully from ", "config.json">> >> ]
    ELSE [ raised |-> LoadConfigExcept(e), printed |-> <<>> ]

\* ------------------------------------------------------- subscripting
\* config[k1][k2]...: the position of the first key of path that is absent,
\* 0 when the whole path is there. Reached only with all sections present.
RECURSIVE FirstAbsentFrom(_, _, _)
FirstAbsentFrom(file, path, n) ==
    IF n > Len(path) THEN 0
    ELSE IF SubSeq(path, 1, n) \in file.missing THEN n
         ELSE FirstAbsentFrom(file, path, n + 1)

\* the KeyError config[path] raises, NoExc if it evaluates
Subscript(file, path) ==
    LET n == FirstAbsentFrom(file, path, 2) IN
    IF n = 0 THEN NoExc ELSE KeyError(path[n])

\* the first exception among a sequence of subscript expressions
RECURSIVE FirstRaised(_, _, _)
FirstRaised(file, paths, i) ==
    IF i > Len(paths) THEN NoExc
    ELSE IF Subscript(file, paths[i]) # NoExc THEN Subscript(file, paths[i])
         ELSE FirstRaised(file, paths, i + 1)

\* ---------------------------------------------------------------- strings
Contains(s, token) == \E i \in DOMAIN s : s[i] = token

StartsWith(s, prefix) == Len(s) >= 1 /\ s[1] = prefix

\* -------------------------------------------------------- validate_config
RoleArnError ==
    <<"Please replace '<YOUR-ACCOUNT>' in dataSource.roleArn with your actual AWS account ID">>
BucketNameError ==
    <<"Please replace '<YOUR-S3-BUCKET-NAME>' in dataSource.configuration.additionalProperties.bucketName with your actual S3 bucket name">>
IamPlaceholderError ==
    <<"Please replace '<YOUR-IAM-IDENTITY-CENTER-ARN>' in application.iamIdentityProviderArn with your actual IAM Identity Center ARN">>
IamFormatError == <<"Invalid iamIdentityProviderArn format">>

\* a validator whose checks are chained with elif: it stops at the first
ValidationErrorsFirstOnly(file) ==
    IF Contains(file.roleArn, AccountPlaceholder) THEN <<RoleArnError>>
    ELSE IF file.bucketName = <<BucketPlaceholder>> THEN <<BucketNameError>>
    ELSE IF file.iamArn = <<IamPlaceholder>> THEN <<IamPlaceholderError>>
    ELSE IF ~StartsWith(file.iamArn, SsoInstancePrefix) THEN <<IamFormatError>>
    ELSE <<>>

\* lines 162-177: the errors list, in the order of the appends
ValidationErrors(file) ==
    (IF Contains(file.roleArn, AccountPlaceholder) THEN <<RoleArnError>> ELSE <<>>)
    \o (IF file.bucketName = <<BucketPlaceholder>> THEN <<BucketNameError>> ELSE <<>>)
    \o (IF file.iamArn = <<IamPlaceholder>> THEN <<IamPlaceholderError>> ELSE <<>>)
    \o (IF ~StartsWith(file.iamArn, SsoInstancePrefix) THEN <<IamFormatError>> ELSE <<>>)

\* lines 165, 168, 171, 175: the subscript expressions, in evaluation order
ValidateSubscripts == <<RoleArnPath, BucketNamePath, IamArnPath>>

\* a validator that reads the keys with .get() and reports an absent key
\* as a failed validation instead of raising
validate_config_lenient(file) ==
    IF FirstRaised(file, ValidateSubscripts, 1) # NoExc
    THEN [ raised |-> NoExc, result |-> FALSE,
           printed |-> << <<"Configuration validation errors:">> >> ]
    ELSE [ raised |-> NoExc, result |-> ValidationErrors(file) = <<>>,
           printed |->
             IF ValidationErrors(file) = <<>>
             THEN << <<"Configuration validation passed">> >>
             ELSE << <<"Configuration validation errors:">> >>
                  \o [i \in DOMAIN ValidationErrors(file) |->
                        <<"  - ">> \o ValidationErrors(file)[i]] ]

\* lines 160-186: the exception validate_config leaves with, or its boolean
\* result, and the lines it prints
validate_config(file) ==
    LET e == FirstRaised(file, ValidateSubscripts, 1)
        errors == ValidationErrors(file)
    IN  IF e # NoExc
        THEN [ raised |-> e, result |-> FALSE, printed |-> <<>> ]
        ELSE IF errors # <<>>
             THEN [ raised |-> NoExc, result |-> FALSE,
                    printed |-> << <<"Configuration validation errors:">> >>
                                \o [i \in DOMAIN errors |-> <<"  - ">> \o errors[i]] ]
             ELSE [ raised |-> NoExc, result |-> TRUE,
                    printed |-> << <<"Configuration validation passed">> >> ]

\* ------------------------------------------------------------------ deploy
\* lines 22-23: what deploy() raises on the validator's boolean
DeployGuardIgnoring(valid) == NoExc

DeployGuard(valid) ==
    IF ~valid
    THEN Exc("ValueError",
             <<"Configuration validation failed. Please fix the errors and try again.">>)
    ELSE NoExc

\* a handler that prints and does not re-raise
DeployExceptSwallowing(e, created) ==
    [ printed |-> <<"Deployment failed: ">> \o e.msg, raised |-> NoExc, deleted |-> {} ]

\* a handler that deletes what the run created before re-raising
DeployExceptRollingBack(e, created) ==
    [ printed |-> <<"Deployment failed: ">> \o e.msg, raised |-> e, deleted |-> created ]

\* lines 53-55: the handler of deploy()'s try block prints the exception and
\* re-raises it; it issues no call that deletes a resource
DeployExcept(e, created) ==
    [ printed |-> <<"Deployment failed: ">> \o e.msg, raised |-> e, deleted |-> {} ]

\* -------------------------------------------------------------------- main
MainExceptExitingZero(e) == [ printed |-> <<"Error: ">> \o e.msg, exit |-> 0 ]

\* lines 205-207: main prints the exception and exits with status 1
MainExcept(e) == [ printed |-> <<"Error: ">> \o e.msg, exit |-> 1 ]

\* the four identifiers: the dict deploy() returns and main dumps
Resources(a, i, d, e) ==
    [ applicationId |-> a, indexId |-> i, dataSourceId |-> d, executionId |-> e ]

\* json.dump(None) writes the document null
NullDocument == Resources(0, 0, 0, 0)

\* the output file opened in append mode
WriteFileAppending(old, document) == [ exists |-> TRUE, docs |-> old.docs \o <<document>> ]

\* lines 201-202: open(output_file, 'w') truncates, json.dump writes one
\* document
WriteFile(old, document) == [ exists |-> TRUE, docs |-> <<document>> ]

\* open(output_file, 'w') succeeded and the dump did not complete
TruncatedFile == [ exists |-> TRUE, docs |-> <<>> ]

\* what deployment_output.json may hold before the run
PriorFiles ==
    { [ exists |-> FALSE, docs |-> <<>> ], TruncatedFile }
        \cup { WriteFile(TruncatedFile, Resources(x, x, x, x)) : x \in Ids }

\* ------------------------------------------------------------ remote calls
\* the keyword arguments of the four calls that carry identifiers
CreateApplicationParams ==
    [ op |-> "create_application", applicationId |-> 0, indexId |-> 0, dataSourceId |-> 0 ]

\* lines 86-95
CreateIndexParams(application_id) ==
    [ op |-> "create_index", applicationId |-> application_id, indexId |-> 0,
      dataSourceId |-> 0 ]

\* lines 107-117
CreateDataSourceParams(application_id, index_id) ==
    [ op |-> "create_data_source", applicationId |-> application_id,
      indexId |-> index_id, dataSourceId |-> 0 ]

StartSyncParamsSwapped(application_id, index_id, data_source_id) ==
    [ op |-> "start_data_source_sync_job", applicationId |-> application_id,
      indexId |-> data_source_id, dataSourceId |-> index_id ]

\* lines 127-131
StartSyncParams(application_id, index_id, data_source_id) ==
    [ op |-> "start_data_source_sync_job", applicationId |-> application_id,
      indexId |-> index_id, dataSourceId |-> data_source_id ]

\* a call in the log: its arguments, whether its response has arrived and
\* what it was
Call(params, status, id) == [ params |-> params, status |-> status, id |-> id ]

ClientError(op) == Exc("ClientError", <<"An error occurred when calling ", op>>)

\* ------------------------------------------------------------------- state
VARIABLES
    pc,            \* where main() stands
    configFile,    \* config.json as found on disk
    outputFile,    \* deployment_output.json
    priorFile,     \* deployment_output.json as it was before the run
    locals,        \* application_id, index_id, data_source_id, execution_id of deploy()
    resources,     \* the value deploy() returned to main
    remoteCalls,   \* the calls issued to the qbusiness client, in order
    allocated,     \* the resources the remote service holds
    printed,       \* the lines printed, in order
    exitStatus,    \* -1 while the process runs
    validated,     \* "none", "true", "false" or "raised": how validate_config ended
    caught,        \* the exception main's handler caught, NoExc if none
    writes         \* how often the run opened the output file for writing

vars ==
    << pc, configFile, outputFile, priorFile, locals, resources, remoteCalls,
       allocated, printed, exitStatus, validated, caught, writes >>

NoLocals == [ application_id |-> 0, index_id |-> 0, data_source_id |-> 0, execution_id |-> 0 ]

\* the resources the successful calls of this run created
Created ==
    { [ op |-> remoteCalls[k].params.op, id |-> remoteCalls[k].id ] :
        k \in {j \in DOMAIN remoteCalls : remoteCalls[j].status = "ok"} }

Init ==
    /\ pc = "main"
    /\ configFile \in ConfigFiles
    /\ outputFile \in PriorFiles
    /\ priorFile = outputFile
    /\ locals = NoLocals
    /\ resources = NullDocument
    /\ remoteCalls = <<>>
    /\ allocated = {}
    /\ printed = <<>>
    /\ exitStatus = -1
    /\ validated = "none"
    /\ caught = NoExc
    /\ writes = 0

\* an exception reaches main's handler, having printed `lines` before
RaiseToMain(e, lines) ==
    LET m == MainExcept(e) IN
    /\ printed' = printed \o lines \o <<m.printed>>
    /\ exitStatus' = m.exit
    /\ caught' = e
    /\ pc' = "exit"

\* an exception is raised inside deploy()'s try block, `lines` having been
\* printed before; a handler that returns makes deploy() return None
RaiseInDeploy(e, lines) ==
    LET h == DeployExcept(e, Created') IN
    /\ allocated' = allocated \ h.deleted
    /\ IF h.raised = NoExc
       THEN /\ printed' = printed \o lines \o <<h.printed>>
            /\ resources' = NullDocument
            /\ pc' = "save"
            /\ UNCHANGED <<exitStatus, caught>>
       ELSE /\ RaiseToMain(h.raised, lines \o <<h.printed>>)
            /\ UNCHANGED resources

\* lines 192-194 with __init__, lines 13-14
Construct ==
    /\ pc = "main"
    /\ LET l == load_config(configFile)
           e == IF l.raised # NoExc THEN l.raised ELSE Subscript(configFile, RegionPath)
       IN  IF e # NoExc
           THEN RaiseToMain(e, l.printed)
           ELSE /\ printed' = printed \o l.printed
                /\ pc' = "deploy"
                /\ UNCHANGED <<exitStatus, caught>>
    /\ UNCHANGED <<configFile, outputFile, priorFile, locals, resources, remoteCalls,
                   allocated, validated, writes>>

DeployBanner == << <<"Starting Amazon Q Business deployment...">>, <<"=", "* 50">> >>

\* lines 16-23
Deploy ==
    /\ pc = "deploy"
    /\ LET v == validate_config(configFile)
           e == IF v.raised # NoExc THEN v.raised ELSE DeployGuard(v.result)
       IN  /\ validated' = IF v.raised # NoExc THEN "raised"
                           ELSE IF v.result THEN "true" ELSE "false"
           /\ IF e # NoExc
              THEN RaiseToMain(e, DeployBanner \o v.printed)
              ELSE /\ printed' = printed \o DeployBanner \o v.printed
                   /\ pc' = "create_application"
                   /\ UNCHANGED <<exitStatus, caught>>
    /\ UNCHANGED <<configFile, outputFile, priorFile, locals, resources, remoteCalls,
                   allocated, writes>>

SectionPaths(section, keys) == [i \in DOMAIN keys |-> <<section, keys[i]>>]

\* a create_* method up to its remote call: it prints its banner, builds
\* params from the configuration section (a KeyError leaves through
\* deploy()'s handler) and issues the call
IssueCall(at, banner, paths, params, awaiting) ==
    /\ pc = at
    /\ LET e == FirstRaised(configFile, paths, 1) IN
       IF e # NoExc
       THEN /\ remoteCalls' = remoteCalls
            /\ RaiseInDeploy(e, <<banner>>)
       ELSE /\ remoteCalls' = Append(remoteCalls, Call(params, "pending", 0))
            /\ printed' = printed \o <<banner>>
            /\ pc' = awaiting
            /\ UNCHANGED <<allocated, resources, exitStatus, caught>>
    /\ UNCHANGED <<configFile, outputFile, priorFile, locals, validated, writes>>

\* the remote call fails: the client raises
ResponseError(awaiting) ==
    /\ pc = awaiting
    /\ remoteCalls' =
         [remoteCalls EXCEPT ![Len(remoteCalls)].status = "error"]
    /\ RaiseInDeploy(ClientError(remoteCalls[Len(remoteCalls)].params.op), <<>>)
    /\ UNCHANGED <<configFile, outputFile, priorFile, locals, validated, writes>>

\* the remote call returns identifier id: the method stores it, prints it
\* and returns it to deploy()
ResponseOk(awaiting, id, local, line, next) ==
    /\ pc = awaiting
    /\ remoteCalls' =
         [remoteCalls EXCEPT ![Len(remoteCalls)].status = "ok",
                             ![Len(remoteCalls)].id = id]
    /\ allocated' =
         allocated \cup {[ op |-> remoteCalls[Len(remoteCalls)].params.op, id |-> id ]}
    /\ locals' = [locals EXCEPT ![local] = id]
    /\ printed' = printed \o << <<line, ToString(id)>> >>
    /\ pc' = next
    /\ UNCHANGED <<configFile, outputFile, priorFile, resources, exitStatus,
                   validated, caught, writes>>

\* lines 27, 57-74
CallCreateApplication ==
    IssueCall("create_application", <<"Creating Amazon Q Business application...">>,
              SectionPaths("application", ApplicationKeys), CreateApplicationParams,
              "create_application_response")

\* lines 74-78
ReturnCreateApplication ==
    \/ \E id \in Ids :
         ResponseOk("create_application_response", id, "application_id",
                    "Application created with ID: ", "create_index")
    \/ ResponseError("create_application_response")

\* lines 30, 80-95
CallCreateIndex ==
    IssueCall("create_index", <<"Creating index...">>,
              SectionPaths("index", IndexKeys),
              CreateIndexParams(locals.application_id), "create_index_response")

\* lines 95-99
ReturnCreateIndex ==
    \/ \E id \in Ids :
         ResponseOk("create_index_response", id, "index_id",
                    "Index created with ID: ", "create_data_source")
    \/ ResponseError("create_index_response")

\* lines 33, 101-117
CallCreateDataSource ==
    IssueCall("create_data_source", <<"Creating S3 data source...">>,
              SectionPaths("dataSource", DataSourceKeys),
              CreateDataSourceParams(locals.application_id, locals.index_id),
              "create_data_source_response")

\* lines 117-121
ReturnCreateDataSource ==
    \/ \E id \in Ids :
         ResponseOk("create_data_source_response", id, "data_source_id",
                    "Data source created with ID: ", "start_data_source_sync")
    \/ ResponseError("create_data_source_response")

\* lines 36, 123-131
CallStartDataSourceSync ==
    IssueCall("start_data_source_sync", <<"Starting data source synchronization...">>,
              <<>>,
              StartSyncParams(locals.application_id, locals.index_id,
                              locals.data_source_id),
              "start_data_source_sync_response")

\* lines 131-135
ReturnStartDataSourceSync ==
    \/ \E id \in Ids :
         ResponseOk("start_data_source_sync_response", id, "execution_id",
                    "Sync job started with execution ID: ", "return_resources")
    \/ ResponseError("start_data_source_sync_response")

\* lines 38-51: deploy() builds the resources dict, prints it and returns it
ReturnResources ==
    /\ pc = "return_resources"
    /\ resources' = Resources(locals.application_id, locals.index_id,
                              locals.data_source_id, locals.execution_id)
    /\ printed' = printed \o
         << <<"=", "* 50">>, <<"Deployment completed successfully!">>,
            <<"Resources created:">>,
            <<"  applicationId: ", ToString(locals.application_id)>>,
            <<"  indexId: ", ToString(locals.index_id)>>,
            <<"  dataSourceId: ", ToString(locals.data_source_id)>>,
            <<"  executionId: ", ToString(locals.execution_id)>> >>
    /\ pc' = "save"
    /\ UNCHANGED <<configFile, outputFile, priorFile, locals, remoteCalls, allocated,
                   exitStatus, validated, caught, writes>>

OSError == Exc("OSError", <<"[Errno] ", "deployment_output.json">>)

\* lines 199-203: main writes the resources to deployment_output.json; the
\* open or the dump may fail with an OSError
SaveOutput ==
    /\ pc = "save"
    /\ \/ /\ outputFile' = WriteFile(outputFile, resources)
          /\ writes' = writes + 1
          /\ printed' = printed \o << <<"Resource IDs saved to ", "deployment_output.json">> >>
          /\ exitStatus' = 0
          /\ pc' = "exit"
          /\ UNCHANGED caught
       \/ /\ RaiseToMain(OSError, <<>>)
          /\ UNCHANGED <<outputFile, writes>>
       \/ /\ outputFile' = TruncatedFile
          /\ writes' = writes + 1
          /\ RaiseToMain(OSError, <<>>)
    /\ UNCHANGED <<configFile, priorFile, locals, resources, remoteCalls, allocated,
                   validated>>

Next ==
    \/ Construct
    \/ Deploy
    \/ CallCreateApplication
    \/ ReturnCreateApplication
    \/ CallCreateIndex
    \/ ReturnCreateIndex
    \/ CallCreateDataSource
    \/ ReturnCreateDataSource
    \/ CallStartDataSourceSync
    \/ ReturnStartDataSourceSync
    \/ ReturnResources
    \/ SaveOutput

Spec == Init /\ [][Next]_vars

\* ================================================================== claims
FourOps ==
    <<"create_application", "create_index", "create_data_source",
      "start_data_source_sync_job">>

AllFourSucceeded ==
    /\ Len(remoteCalls) = 4
    /\ \A k \in 1..4 : remoteCalls[k].status = "ok"

\* C1: the remote calls are issued in the order create_application,
\* create_index, create_data_source, start_data_source_sync_job, none
\* skipped or repeated, each only after the previous call returned, and
\* each carries exactly the identifiers the earlier calls returned; a run
\* gets past the fourth call only with all four issued and answered.
C1_ChainedCalls ==
    /\ Len(remoteCalls) <= 4
    /\ \A k \in DOMAIN remoteCalls :
         /\ remoteCalls[k].params.op = FourOps[k]
         /\ k < Len(remoteCalls) => remoteCalls[k].status = "ok"
         /\ remoteCalls[k].params.applicationId =
              (IF k >= 2 THEN remoteCalls[1].id ELSE 0)
         /\ remoteCalls[k].params.indexId =
              (IF k >= 3 THEN remoteCalls[2].id ELSE 0)
         /\ remoteCalls[k].params.dataSourceId =
              (IF k >= 4 THEN remoteCalls[3].id ELSE 0)
    /\ (pc \in {"return_resources", "save"} \/ exitStatus = 0) => AllFourSucceeded

\* a finished run whose four calls returned pairwise different identifiers
\* for application, index and data source
C1_Witness ==
    /\ pc = "exit"
    /\ AllFourSucceeded
    /\ remoteCalls[1].id # remoteCalls[2].id
    /\ remoteCalls[2].id # remoteCalls[3].id
    /\ remoteCalls[4].params.indexId = remoteCalls[2].id

\* C2: when the remote call of step k raises, it is the last call of the
\* run, the process has exited with a non-zero status and
\* deployment_output.json was not written.
C2_FailureAborts ==
    \A k \in DOMAIN remoteCalls :
        remoteCalls[k].status = "error" =>
            /\ k = Len(remoteCalls)
            /\ pc = "exit"
            /\ exitStatus = 1
            /\ writes = 0
            /\ outputFile = priorFile

\* data-source creation failed in a run that found an output file
C2_Witness ==
    /\ pc = "exit"
    /\ Len(remoteCalls) = 3
    /\ remoteCalls[3].status = "error"
    /\ remoteCalls[3].params.op = "create_data_source"
    /\ priorFile.exists

\* the checks of the validator, stated on the configuration values
RoleArnViolated == \E i \in DOMAIN configFile.roleArn : configFile.roleArn[i] = "<YOUR-ACCOUNT>"
BucketNameViolated == configFile.bucketName = <<"<YOUR-S3-BUCKET-NAME>">>
IamPlaceholderViolated == configFile.iamArn = <<"<YOUR-IAM-IDENTITY-CENTER-ARN>">>
IamFormatViolated ==
    ~(Len(configFile.iamArn) >= 1 /\ configFile.iamArn[1] = "arn:aws:sso:::instance/")

ExpectedErrors ==
    (IF RoleArnViolated THEN {RoleArnError} ELSE {})
    \cup (IF BucketNameViolated THEN {BucketNameError} ELSE {})
    \cup (IF IamPlaceholderViolated THEN {IamPlaceholderError} ELSE {})
    \cup (IF IamFormatViolated THEN {IamFormatError} ELSE {})

PrintedLines == {printed[i] : i \in DOMAIN printed}

PrintedErrors == {l \in PrintedLines : l[1] = "  - "}

\* C3: once validate_config has been called on a configuration with at
\* least one violation, the run has ended with a non-zero status and no
\* remote call is ever issued; when validate_config returned, the message
\* of each violation is among the printed lines.
C3_InvalidConfigNoRemoteCall ==
    (validated # "none" /\ ExpectedErrors # {}) =>
        /\ remoteCalls = <<>>
        /\ allocated = {}
        /\ pc = "exit"
        /\ exitStatus = 1
        /\ validated # "true"
        /\ validated = "false" =>
             \A m \in ExpectedErrors : (<<"  - ">> \o m) \in PrintedLines

\* the role ARN still holds the account placeholder, nothing else is wrong
C3_Witness ==
    /\ pc = "exit"
    /\ validated = "false"
    /\ configFile.roleArn = <<"arn:aws:iam::", "<YOUR-ACCOUNT>", ":role/QBusinessRole">>
    /\ ExpectedErrors = {RoleArnError}
    /\ (<<"  - ">> \o RoleArnError) \in PrintedLines

SectionOrder(s) ==
    CASE s = "aws" -> 1 [] s = "application" -> 2 [] s = "index" -> 3 [] s = "dataSource" -> 4

AbsentSections == {"aws", "application", "index", "dataSource"} \ configFile.sections

FirstAbsentSection ==
    CHOOSE s \in AbsentSections : \A t \in AbsentSections : SectionOrder(s) <= SectionOrder(t)

MissingSectionError(s) ==
    Exc("Exception",
        <<"Error loading configuration: ", "Missing required configuration section: ", s>>)

FileNotFoundCondition ==
    Exc("Exception",
        <<"Error loading configuration: ", "Configuration file '", "config.json",
          "' not found">>)

MalformedCondition ==
    Exc("ValueError", <<"Invalid JSON in configuration file: ", "Expecting value">>)

LoadFails == ~configFile.exists \/ ~configFile.json \/ AbsentSections # {}

\* C4: a parsed configuration lacking a required section fails in
\* load_config with the error naming the first absent section in the order
\* aws, application, index, dataSource; a missing file and unparseable
\* content fail with conditions different from it and from each other; in
\* all three cases validate_config is never reached, no remote call is
\* issued and the exit status is non-zero.
C4_LoadErrors ==
    LoadFails =>
        /\ pc \in {"main", "exit"}
        /\ validated = "none"
        /\ remoteCalls = <<>>
        /\ pc = "exit" =>
             /\ exitStatus = 1
             /\ printed = << <<"Error: ">> \o caught.msg >>
             /\ caught =
                  (IF ~configFile.exists THEN FileNotFoundCondition
                   ELSE IF ~configFile.json THEN MalformedCondition
                   ELSE MissingSectionError(FirstAbsentSection))
             /\ (~configFile.exists \/ ~configFile.json) =>
                  \A s \in {"aws", "application", "index", "dataSource"} :
                      caught # MissingSectionError(s)
             /\ FileNotFoundCondition # MalformedCondition

\* application and dataSource are both absent: the error names application
C4_Witness ==
    /\ pc = "exit"
    /\ configFile.exists /\ configFile.json
    /\ configFile.sections = {"aws", "index"}
    /\ caught = MissingSectionError("application")

\* C5: after a run whose four calls returned and whose write completed,
\* deployment_output.json holds exactly the one mapping of the identifiers
\* this run's calls returned, whatever it held before; and whatever the
\* file holds, the write can complete.
C5_OutputIsThisRunsMapping ==
    /\ (pc = "exit" /\ AllFourSucceeded /\ caught = NoExc) =>
           /\ outputFile.exists
           /\ outputFile.docs =
                << [ applicationId |-> remoteCalls[1].id, indexId |-> remoteCalls[2].id,
                     dataSourceId |-> remoteCalls[3].id,
                     executionId |-> remoteCalls[4].id ] >>
    /\ pc = "save" => ENABLED (SaveOutput /\ exitStatus' = 0)

\* the run overwrote the mapping of an earlier deployment with another one
C5_Witness ==
    /\ pc = "exit"
    /\ exitStatus = 0
    /\ priorFile.exists
    /\ Len(priorFile.docs) = 1
    /\ outputFile # priorFile

\* C6: when validate_config has run to its end, the error lines it printed
\* are exactly the messages of the violated checks, and it returned true
\* exactly when no check is violated, that is when no placeholder is left
\* and the identity-provider ARN starts with the required prefix.
C6_AllViolationsReported ==
    validated \in {"true", "false"} =>
        /\ PrintedErrors = {<<"  - ">> \o m : m \in ExpectedErrors}
        /\ validated = "true" <=> ExpectedErrors = {}
        /\ validated = "true" <=>
             /\ ~RoleArnViolated
             /\ ~BucketNameViolated
             /\ ~IamPlaceholderViolated
             /\ ~IamFormatViolated

\* all four checks are violated at once and all four messages are printed
C6_Witness ==
    /\ validated = "false"
    /\ RoleArnViolated /\ BucketNameViolated /\ IamPlaceholderViolated /\ IamFormatViolated
    /\ Cardinality(PrintedErrors) = 4

\* the keys validate_config subscripts, with the keys above them
InspectedKeys ==
    { <<"dataSource", "roleArn">>,
      <<"dataSource", "configuration">>,
      <<"dataSource", "configuration", "additionalProperties">>,
      <<"dataSource", "configuration", "additionalProperties", "bucketName">>,
      <<"application", "iamIdentityProviderArn">> }

ValidationFailed ==
    Exc("ValueError",
        <<"Configuration validation failed. Please fix the errors and try again.">>)

SectionsComplete ==
    /\ configFile.exists
    /\ configFile.json
    /\ configFile.sections = {"aws", "application", "index", "dataSource"}

\* C8: the exit status is 0 exactly when the load, the validation, the four
\* remote calls and the write all succeeded; otherwise it is 1 and the last
\* line printed is the error; no remote call is issued twice and the file is
\* opened for writing at most once.
C8_ExitStatus ==
    /\ pc # "exit" => exitStatus = -1
    /\ pc = "exit" =>
         /\ exitStatus \in {0, 1}
         /\ exitStatus = 0 <=>
              /\ SectionsComplete
              /\ validated = "true"
              /\ AllFourSucceeded
              /\ writes = 1
              /\ outputFile.docs = <<resources>>
              /\ caught = NoExc
         /\ exitStatus = 1 =>
              /\ caught # NoExc
              /\ printed[Len(printed)] = <<"Error: ">> \o caught.msg
    /\ (\E k \in DOMAIN remoteCalls : remoteCalls[k].status = "error") => exitStatus = 1
    /\ validated \in {"false", "raised"} => exitStatus = 1
    /\ \A j, k \in DOMAIN remoteCalls :
         remoteCalls[j].params.op = remoteCalls[k].params.op => j = k
    /\ writes <= 1

\* everything succeeded but the write: the run ends with status 1
C8_Witness ==
    /\ pc = "exit"
    /\ AllFourSucceeded
    /\ caught.type = "OSError"
    /\ exitStatus = 1

\* C9: the run issues only the four creating calls, and every resource a
\* call of this run created is still allocated on the remote service, also
\* after a later step failed and the process ended.
C9_NoCleanup ==
    /\ \A k \in DOMAIN remoteCalls :
         remoteCalls[k].params.op \in {FourOps[i] : i \in DOMAIN FourOps}
    /\ \A k \in DOMAIN remoteCalls :
         remoteCalls[k].status = "ok" =>
             [ op |-> remoteCalls[k].params.op, id |-> remoteCalls[k].id ] \in allocated

\* the sync job failed to start: application, index and data source stay
C9_Witness ==
    /\ pc = "exit"
    /\ Len(remoteCalls) = 4
    /\ remoteCalls[4].status = "error"
    /\ Cardinality(allocated) = 3

\* C10: the output file is opened for writing at most once, and only after
\* all four remote calls returned; a run that fails in the load, the
\* validation or a remote call leaves the file as it found it.
C10_OutputUntouchedOnFailure ==
    /\ writes <= 1
    /\ writes = 1 => AllFourSucceeded
    /\ writes = 0 => outputFile = priorFile
    /\ (pc = "exit" /\ caught # NoExc /\ caught.type # "OSError") =>
           (writes = 0 /\ outputFile = priorFile)

\* index creation failed; the mapping of an earlier deployment is still there
C10_Witness ==
    /\ pc = "exit"
    /\ Len(remoteCalls) = 2
    /\ remoteCalls[2].status = "error"
    /\ Len(priorFile.docs) = 1
    /\ outputFile = priorFile
====
